---- MODULE Spec2Model ----
(***************************************************************************)
(* Model of src/src/hhl.py: the HHL pipeline for a 2x2 system A x = b.     *)
(*                                                                         *)
(* Numbers are exact rationals <<n, d>> with d > 0 and gcd(n, d) = 1,      *)
(* extended with the IEEE special values numpy produces instead of raising *)
(* (<<1,0>> = +inf, <<-1,0>> = -inf, <<0,0>> = nan).  The sign of a zero   *)
(* is not tracked: a zero divisor is taken as +0.                          *)
(* Angles are kept symbolic: <<x>> is 2*arcsin(x), <<x, y>> is             *)
(* 2*arcsin(x) - 2*arcsin(y).                                              *)
(* A 2x2 unitary is kept as the pair of its eigenphases in turns (mod 1)   *)
(* in the eigenbasis of A.                                                 *)
(* The statevector is kept as the ordered log of the gates applied to it.  *)
(***************************************************************************)
EXTENDS Integers, Sequences, FiniteSets, TLC

\* ---------------------------------------------------------------- bounds
MaxClockBits == 3
MaxRes == 2

\* ------------------------------------------------------ exact arithmetic
Abs(x) == IF x < 0 THEN -x ELSE x

Sgn(x) == IF x < 0 THEN -1 ELSE 1

RECURSIVE Gcd(_, _)
Gcd(x, y) == IF y = 0 THEN x ELSE Gcd(y, x % y)

Nan == <<0, 0>>
Inf(s) == <<s, 0>>
Unset == <<>>

IsNan(x) == x = Nan
IsInf(x) == x[2] = 0 /\ x[1] # 0
IsFin(x) == x[2] > 0
IsZero(x) == IsFin(x) /\ x[1] = 0

Norm(n, d) ==
  IF d = 0 THEN Nan
  ELSE LET g == Gcd(Abs(n), Abs(d))
           s == IF d < 0 THEN -1 ELSE 1
       IN <<(s * n) \div g, (s * d) \div g>>

Int2F(i) == <<i, 1>>

\* float64 division as numpy does it on array scalars: no exception,
\* x/0 is +-inf, 0/0 and inf/inf are nan
FDiv(x, y) ==
  IF IsNan(x) \/ IsNan(y) THEN Nan
  ELSE IF IsInf(x) THEN (IF IsInf(y) THEN Nan ELSE Inf(x[1] * Sgn(y[1])))
  ELSE IF IsInf(y) THEN <<0, 1>>
  ELSE IF y[1] = 0 THEN (IF x[1] = 0 THEN Nan ELSE Inf(Sgn(x[1])))
  ELSE Norm(x[1] * y[2], x[2] * y[1])

FMul(x, y) ==
  IF IsNan(x) \/ IsNan(y) THEN Nan
  ELSE IF IsInf(x) \/ IsInf(y)
       THEN (IF IsZero(x) \/ IsZero(y) THEN Nan ELSE Inf(Sgn(x[1]) * Sgn(y[1])))
  ELSE Norm(x[1] * y[1], x[2] * y[2])

FSub(x, y) ==
  IF IsNan(x) \/ IsNan(y) THEN Nan
  ELSE IF IsInf(x) THEN (IF IsInf(y) /\ x[1] = y[1] THEN Nan ELSE x)
  ELSE IF IsInf(y) THEN Inf(-y[1])
  ELSE Norm(x[1] * y[2] - y[1] * x[2], x[2] * y[2])

FAbs(x) == <<Abs(x[1]), x[2]>>

\* x <= y on non-nan values
FLe(x, y) ==
  IF IsInf(x) THEN (x[1] = -1 \/ y = x)
  ELSE IF IsInf(y) THEN y[1] = 1
  ELSE x[1] * y[2] <= y[1] * x[2]

FLt(x, y) == FLe(x, y) /\ x # y

\* integer square root, or -1 when n is not a perfect square
ISqrt(n) ==
  IF n < 0 THEN -1
  ELSE IF \E r \in 0..n : r * r = n
       THEN CHOOSE r \in 0..n : r * r = n
       ELSE -1

FAdd(x, y) == FSub(x, FSub(<<0, 1>>, y))

\* exact square root of a non-negative rational, or Nan when irrational
FSqrt(x) ==
  LET rn == ISqrt(x[1])
      rd == ISqrt(x[2])
  IN IF rn < 0 \/ rd < 0 THEN Nan ELSE Norm(rn, rd)

\* fractional part: a phase in turns, e^{2 pi i x}; exp(1j*inf) is nan
Frac(x) == IF IsFin(x) THEN Norm(x[1] % x[2], x[2]) ELSE Nan

\* np.round: to nearest, ties to even (argument finite)
RoundHalfEven(x) ==
  LET fl == x[1] \div x[2]
      r2 == 2 * (x[1] - fl * x[2])
  IN IF r2 < x[2] THEN fl
     ELSE IF r2 > x[2] THEN fl + 1
     ELSE IF fl % 2 = 0 THEN fl ELSE fl + 1

\* np.arcsin doubled: nan outside [-1, 1] (RuntimeWarning, no exception)
Arcsin2(x) ==
  IF IsFin(x) /\ FLe(FAbs(x), <<1, 1>>) THEN <<x>> ELSE <<Nan>>

\* angle1 - angle0 on symbolic angles
AngleSub(p, q) ==
  IF p = <<Nan>> \/ q = <<Nan>> THEN <<Nan>>
  ELSE IF p = q THEN <<(<<0, 1>>)>>
  ELSE IF q = <<(<<0, 1>>)>> THEN p
  ELSE <<p[1], q[1]>>

\* np.allclose(x, y, atol=1e-4) with the default rtol=1e-5:
\* |x - y| <= atol + rtol * |y|, both sides multiplied by 1e5
AllClose(x, y) ==
  IF IsNan(x) \/ IsNan(y) THEN FALSE
  ELSE IF IsInf(x) \/ IsInf(y) THEN x = y
  ELSE FLe(FMul(FAbs(FSub(x, y)), <<100000, 1>>), FAdd(<<10, 1>>, FAbs(y)))

\* ------------------------------------------------------------- matrices
\* a 2x2 matrix is <<row1, row2>> of rationals
DiagVals == {<<-1, 1>>, <<0, 1>>, <<1, 6>>, <<1, 2>>, <<1, 1>>}
OffVals == {<<-1, 2>>, <<-1, 3>>, <<0, 1>>, <<1, 6>>, <<1, 3>>, <<1, 2>>}

MkMat(p, q, r, s) == << <<p, q>>, <<r, s>> >>

Trace(m) == FAdd(m[1][1], m[2][2])
Disc(m) == FAdd(FMul(FSub(m[1][1], m[2][2]), FSub(m[1][1], m[2][2])),
                FMul(<<4, 1>>, FMul(m[1][2], m[2][1])))
Det(m) == FSub(FMul(m[1][1], m[2][2]), FMul(m[1][2], m[2][1]))

\* the spectrum can be written exactly: complex pair, or rational roots
HasExactSpectrum(m) == Disc(m)[1] < 0 \/ FSqrt(Disc(m)) # Nan

Matrices ==
  {m \in {MkMat(p, q, r, s) : p \in DiagVals, s \in DiagVals, q \in OffVals, r \in OffVals} :
     HasExactSpectrum(m)}

\* ops.Operator.is_hermitian: A equals its conjugate transpose (real entries)
IsHermitian(m) == m[1][2] = m[2][1]

\* np.linalg.eig: the two roots of the characteristic polynomial as
\* <<real part, sign of imaginary part>>, in no particular order
Eig(m) ==
  LET half == <<1, 2>>
      tr == Trace(m)
      dc == Disc(m)
  IN IF dc[1] < 0
     THEN << <<FMul(half, tr), 1>>, <<FMul(half, tr), -1>> >>
     ELSE << <<FMul(half, FAdd(tr, FSqrt(dc))), 0>>,
             <<FMul(half, FSub(tr, FSqrt(dc))), 0>> >>

\* w.argsort() on complex values: by real part, then imaginary part
Argsort(e) ==
  IF FLt(e[2][1], e[1][1]) \/ (e[2][1] = e[1][1] /\ e[2][2] < e[1][2])
  THEN <<2, 1>> ELSE <<1, 2>>

\* eigenvector columns are named by the index of their root in Eig(m)
compute_sorted_eigenvalues(m) ==
  LET e == Eig(m)
      ix == Argsort(e)
  IN [w |-> <<e[ix[1]][1], e[ix[2]][1]>>, v |-> <<ix[1], ix[2]>>]

\* U = v diag(e^{i w0 t}, e^{i w1 t}) v^H, t given in units of 2 pi
compute_u_matrix(m, ww, vv, tt) ==
  [basis |-> <<m, vv>>, ph |-> <<Frac(FMul(ww[1], tt)), Frac(FMul(ww[2], tt))>>]

\* u @ u for operators that share a basis: eigenphases add
MatMul(x, y) == [basis |-> x.basis, ph |-> <<Frac(FAdd(x.ph[1], y.ph[1])), Frac(FAdd(x.ph[2], y.ph[2]))>>]

\* np.linalg.inv of a unitary: eigenphases negate
MatInv(x) == [basis |-> x.basis, ph |-> <<Frac(FSub(<<0, 1>>, x.ph[1])), Frac(FSub(<<0, 1>>, x.ph[2]))>>]

\* np.min over a list: nan if any entry is nan
NpMin(l) ==
  IF IsNan(l[1]) \/ IsNan(l[2]) THEN Nan
  ELSE IF FLe(l[1], l[2]) THEN l[1] ELSE l[2]

\* np.linalg.solve followed by the ratio |x1|^2 / |x0|^2 of check_classic_solution
Singular(m) == IsZero(Det(m))
check_classic_solution(m, bb) ==
  LET x0 == FDiv(FSub(FMul(m[2][2], Int2F(bb[1])), FMul(m[1][2], Int2F(bb[2]))), Det(m))
      x1 == FDiv(FSub(FMul(m[1][1], Int2F(bb[2])), FMul(m[2][1], Int2F(bb[1]))), Det(m))
  IN FDiv(FMul(x1, x1), FMul(x0, x0))

\* --------------------------------------------------------------- inputs
Bs == {<<0, 1>>, <<1, 0>>, <<1, 1>>}

\* the four (a, b, verify) calls of main, in source order
A1 == MkMat(<<1, 1>>, <<-1, 3>>, <<-1, 3>>, <<1, 1>>)
A2 == MkMat(<<1, 1>>, <<-1, 2>>, <<-1, 2>>, <<1, 1>>)
Scenarios ==
  << [a |-> A1, b |-> <<0, 1>>, verify |-> TRUE],
     [a |-> A2, b |-> <<0, 1>>, verify |-> FALSE],
     [a |-> A1, b |-> <<1, 0>>, verify |-> FALSE],
     [a |-> A2, b |-> <<1, 0>>, verify |-> FALSE] >>

\* names bound at module level of hhl.py (imports and defs)
ModuleGlobals ==
  {"app", "np", "circuit", "ops", "state", "check_classic_solution", "check_results",
   "compute_sorted_eigenvalues", "compute_u_matrix", "construct_circuit",
   "run_experiment", "main"}

\* arguments for a direct call of construct_circuit
LamVals == {<<1, 1>>, <<2, 1>>, <<3, 1>>, <<5, 2>>, <<-3, 1>>, <<1, 2>>}
CVals == {<<0, 1>>, <<1, 2>>, <<1, 1>>}
UVals == {[basis |-> <<A1, <<2, 1>> >>, ph |-> <<(<<1, 4>>), (<<1, 2>>)>>],
          [basis |-> <<A2, <<2, 1>> >>, ph |-> <<(<<1, 4>>), (<<3, 4>>)>>]}

\* what amplitude introspection of the final state can give check_results
RatioQuantumVals == {<<1, 9>>, <<1, 1>>, <<16, 9>>, <<4, 1>>, <<9, 1>>}

\* probability mass of the ancilla = 1 subspace, relative to the threshold
Masses == {"below", "above"}

Entries == {"main", "run_experiment", "construct_circuit", "compute_sorted_eigenvalues"}

\* ---------------------------------------------------------------- state
VARIABLES
  entry,            \* the function the caller invoked
  pc,               \* position in the code
  err,              \* the exception in flight or raised, "none" otherwise
  argc,             \* len(argv) of main
  scen,             \* number of run_experiment calls main has made
  a, b, verify,     \* run_experiment: arguments
  w, v,             \* run_experiment: sorted eigenvalues and eigenvectors
  ratio, t, lam,    \* run_experiment: derived parameters (t in units of 2 pi)
  u, C,             \* run_experiment: unitary and rotation constant
  cc_b, cc_w, cc_u, c, clock_bits,   \* construct_circuit: arguments
  idx,              \* construct_circuit: loop index
  u_phase,          \* construct_circuit: running power of u
  u_phase_gates,    \* construct_circuit: recorded powers
  angle0, angle1,   \* construct_circuit: rotation angles
  psi,              \* qc.psi, as the log of gates applied to it
  psi_norm,         \* qc.psi has norm 1
  mass,             \* probability mass seen by the forced measurement
  ratio_classical, ratio_quantum     \* check_results

vars == <<entry, pc, err, argc, scen, a, b, verify, w, v, ratio, t, lam, u, C,
          cc_b, cc_w, cc_u, c, clock_bits, idx, u_phase, u_phase_gates,
          angle0, angle1, psi, psi_norm, mass, ratio_classical, ratio_quantum>>

mainVars == <<argc, scen>>
reArgs == <<a, b, verify>>
reLocals == <<w, v, ratio, t, lam, u, C>>
ccArgs == <<cc_b, cc_w, cc_u, c, clock_bits>>
ccLocals == <<idx, u_phase, u_phase_gates, angle0, angle1, psi, psi_norm, mass>>
crVars == <<ratio_classical, ratio_quantum>>

NoMatrix == <<>>
NoOp == [basis |-> <<>>, ph |-> <<>>]

InitLocals ==
  /\ err = "none"
  /\ scen = 0
  /\ w = Unset /\ v = Unset /\ ratio = Unset /\ t = Unset /\ lam = Unset
  /\ u = NoOp /\ C = Unset
  /\ idx = 0 /\ u_phase = NoOp /\ u_phase_gates = <<>>
  /\ angle0 = Unset /\ angle1 = Unset
  /\ psi = <<>> /\ psi_norm = TRUE /\ mass = "above"
  /\ ratio_classical = Unset /\ ratio_quantum = Unset

NoReArgs == a = NoMatrix /\ b = <<>> /\ verify = FALSE
NoCcArgs == cc_b = <<>> /\ cc_w = Unset /\ cc_u = NoOp /\ c = Unset /\ clock_bits = 0

Init ==
  /\ InitLocals
  /\ entry \in Entries
  /\ \/ /\ entry = "main"
        /\ pc = "main"
        /\ argc \in 1..2
        /\ NoReArgs /\ NoCcArgs
     \/ /\ entry = "run_experiment"
        /\ pc = "re_hermitian"
        /\ argc = 0
        /\ a \in Matrices /\ b \in Bs /\ verify \in BOOLEAN
        /\ NoCcArgs
     \/ /\ entry = "compute_sorted_eigenvalues"
        /\ pc = "cse"
        /\ argc = 0
        /\ a \in Matrices /\ b = <<>> /\ verify = FALSE
        /\ NoCcArgs
     \/ /\ entry = "construct_circuit"
        /\ pc = "cc_init"
        /\ argc = 0
        /\ NoReArgs
        /\ cc_b \in Bs
        /\ cc_w \in LamVals \X LamVals
        /\ cc_u \in UVals
        /\ c \in CVals
        /\ clock_bits \in 1..MaxClockBits

\* -------------------------------------------------------- control flow
\* where control goes when the entry function's callee chain ends with e:
\* back into main (which has no handler), or to the caller of the entry
After(e) ==
  IF entry = "main" THEN "main_continue"
  ELSE IF e = "none" THEN "done" ELSE "raised"

Raise(e) == err' = e /\ pc' = After(e)

\* the two AssertionErrors of lines 162 and 44
HermitianMsg == "AssertionError: Input A must be Hermitian."
IncorrectMsg == "AssertionError: Incorrect result."

\* ----------------------------------------------------------------- main
main ==
  /\ pc = "main"
  /\ IF argc > 1
     THEN err' = "UsageError" /\ pc' = "raised"
     ELSE err' = err /\ pc' = "main_check_rotate_ry"
  /\ UNCHANGED <<entry, mainVars, reArgs, reLocals, ccArgs, ccLocals, crVars>>

\* line 212: the call check_rotate_ry(1.2) looks the name up in the module
main_check_rotate_ry ==
  /\ pc = "main_check_rotate_ry"
  /\ IF "check_rotate_ry" \in ModuleGlobals
     THEN err' = err /\ pc' = "main_continue"
     ELSE Raise("NameError")
  /\ UNCHANGED <<entry, mainVars, reArgs, reLocals, ccArgs, ccLocals, crVars>>

\* control is back in main after a call: an exception leaves main, otherwise
\* the next run_experiment call of lines 219-236 is made, or main returns
main_continue ==
  /\ pc = "main_continue"
  /\ UNCHANGED <<entry, argc, ccArgs, ccLocals, crVars>>
  /\ IF err # "none"
     THEN pc' = "raised" /\ UNCHANGED <<err, scen, reArgs, reLocals>>
     ELSE IF scen < Len(Scenarios)
     THEN /\ scen' = scen + 1
          /\ a' = Scenarios[scen + 1].a
          /\ b' = Scenarios[scen + 1].b
          /\ verify' = Scenarios[scen + 1].verify
          /\ w' = Unset /\ v' = Unset /\ ratio' = Unset /\ t' = Unset
          /\ lam' = Unset /\ u' = NoOp /\ C' = Unset
          /\ pc' = "re_hermitian"
          /\ err' = err
     ELSE pc' = "done" /\ UNCHANGED <<err, scen, reArgs, reLocals>>

\* ------------------------------------------------------- run_experiment
Dim(m) == Len(m)

\* variant: the Hermitian guard of line 161 is missing
re_hermitian_unchecked ==
  /\ pc = "re_hermitian"
  /\ err' = err /\ pc' = "re_eigen"
  /\ UNCHANGED <<entry, mainVars, reArgs, reLocals, ccArgs, ccLocals, crVars>>

re_hermitian ==
  /\ pc = "re_hermitian"
  /\ IF ~IsHermitian(a)
     THEN Raise(HermitianMsg)
     ELSE err' = err /\ pc' = "re_eigen"
  /\ UNCHANGED <<entry, mainVars, reArgs, reLocals, ccArgs, ccLocals, crVars>>

re_eigen ==
  /\ pc = "re_eigen"
  /\ w' = compute_sorted_eigenvalues(a).w
  /\ v' = compute_sorted_eigenvalues(a).v
  /\ pc' = "re_plan"
  /\ UNCHANGED <<entry, err, mainVars, reArgs, ratio, t, lam, u, C, ccArgs, ccLocals, crVars>>

\* variant: t derived from w[0] instead of w[1]
PlanT_w0(ww, nn) == FDiv(FDiv(FDiv(ww[2], ww[1]), Int2F(nn)), ww[1])

\* lines 175-185; t is kept as its multiple of 2 pi
PlanRatio(ww) == FDiv(ww[2], ww[1])
PlanT(ww, nn) == FDiv(FDiv(PlanRatio(ww), Int2F(nn)), ww[2])
PlanLam(ww, nn, tt) ==
  <<FMul(FMul(Int2F(nn), ww[1]), tt), FMul(FMul(Int2F(nn), ww[2]), tt)>>

re_plan ==
  /\ pc = "re_plan"
  /\ LET N == Dim(a) * Dim(a)
     IN /\ ratio' = PlanRatio(w)
        /\ t' = PlanT(w, N)
        /\ lam' = PlanLam(w, N, PlanT(w, N))
  /\ pc' = "re_u"
  /\ UNCHANGED <<entry, err, mainVars, reArgs, w, v, u, C, ccArgs, ccLocals, crVars>>

re_u ==
  /\ pc = "re_u"
  /\ u' = compute_u_matrix(a, w, v, t)
  /\ pc' = "re_C"
  /\ UNCHANGED <<entry, err, mainVars, reArgs, w, v, ratio, t, lam, C, ccArgs, ccLocals, crVars>>

RotationConstant(l) == NpMin(l)

re_C ==
  /\ pc = "re_C"
  /\ C' = RotationConstant(lam)
  /\ pc' = "re_construct"
  /\ UNCHANGED <<entry, err, mainVars, reArgs, w, v, ratio, t, lam, u, ccArgs, ccLocals, crVars>>

\* line 200: construct_circuit(b, lam, u, C, 2)
re_construct ==
  /\ pc = "re_construct"
  /\ cc_b' = b /\ cc_w' = lam /\ cc_u' = u /\ c' = C /\ clock_bits' = 2
  /\ idx' = 0 /\ u_phase' = NoOp /\ u_phase_gates' = <<>>
  /\ angle0' = Unset /\ angle1' = Unset
  /\ psi' = <<>> /\ psi_norm' = TRUE /\ mass' = "above"
  /\ pc' = "cc_init"
  /\ UNCHANGED <<entry, err, mainVars, reArgs, reLocals, crVars>>

\* line 201: check_results(qc, a, b, verify), lines 24-44
check_results ==
  /\ pc = "re_check"
  /\ UNCHANGED <<entry, mainVars, reArgs, reLocals, ccArgs, ccLocals>>
  /\ IF Singular(a)
     THEN Raise("LinAlgError") /\ UNCHANGED crVars
     ELSE /\ ratio_classical' = check_classic_solution(a, b)
          /\ \E nres \in 0..MaxRes, rq \in RatioQuantumVals :
               IF nres < Len(b)
               THEN Raise("IndexError") /\ ratio_quantum' = ratio_quantum
               ELSE /\ ratio_quantum' = rq
                    /\ IF ~AllClose(check_classic_solution(a, b), rq)
                       THEN Raise(IncorrectMsg)
                       ELSE err' = err /\ pc' = After("none")

\* direct call of compute_sorted_eigenvalues(a)
cse_call ==
  /\ pc = "cse"
  /\ w' = compute_sorted_eigenvalues(a).w
  /\ v' = compute_sorted_eigenvalues(a).v
  /\ pc' = "done"
  /\ UNCHANGED <<entry, err, mainVars, reArgs, ratio, t, lam, u, C, ccArgs, ccLocals, crVars>>

\* ---------------------------------------------------- construct_circuit
\* registers breg(1), clock(clock_bits), anc(1), allocated in this order
Breg == 0
Clock(k) == 1 + k
Anc == 1 + clock_bits

\* Register indexing: position k exists in a register of the given width
RegHas(width, k) == k >= 0 /\ k < width

Gate(g, ctl, tgt, op, ang) == [g |-> g, ctl |-> ctl, tgt |-> tgt, op |-> op, ang |-> ang]

ZeroAngle == <<(<<0, 1>>)>>

\* forced measurement of the ancilla: the mass in the ancilla = 1 subspace;
\* rotations by a zero angle leave the ancilla in |0>
AncillaMasses(st) ==
  IF \A i \in 1..Len(st) : st[i].g = "cry" => st[i].ang = ZeroAngle
  THEN {"below"} ELSE Masses

\* state.measure_bit(bit, 1, collapse=True): fails when the mass is below
\* the threshold, otherwise renormalises onto the subspace
measure_bit(m) == [raised |-> m = "below", norm |-> m # "below"]

CcReturn == IF entry = "construct_circuit" THEN "done" ELSE "re_check"

cc_init ==
  /\ pc = "cc_init"
  /\ psi' = IF cc_b[2] = 1 THEN <<Gate("x", -1, Breg, NoOp, <<>>)>> ELSE <<>>
  /\ pc' = "cc_h"
  /\ UNCHANGED <<entry, err, mainVars, reArgs, reLocals, ccArgs, idx, u_phase,
                 u_phase_gates, angle0, angle1, psi_norm, mass, crVars>>

cc_h ==
  /\ pc = "cc_h"
  /\ psi' = Append(psi, Gate("h", -1, Clock(0), NoOp, <<>>))
  /\ u_phase' = cc_u
  /\ u_phase_gates' = <<>>
  /\ idx' = 0
  /\ pc' = "cc_phase"
  /\ UNCHANGED <<entry, err, mainVars, reArgs, reLocals, ccArgs, angle0, angle1,
                 psi_norm, mass, crVars>>

\* variant: the power is recorded after the squaring (lines 100, 101 swapped)
cc_phase_record_after_square ==
  /\ pc = "cc_phase"
  /\ IF idx < clock_bits
     THEN /\ psi' = Append(psi, Gate("ctl_2x2", Clock(idx), Breg, u_phase, <<>>))
          /\ u_phase_gates' = Append(u_phase_gates, MatMul(u_phase, u_phase))
          /\ u_phase' = MatMul(u_phase, u_phase)
          /\ idx' = idx + 1
          /\ pc' = pc
     ELSE /\ pc' = "cc_iqft"
          /\ UNCHANGED <<psi, u_phase_gates, u_phase, idx>>
  /\ UNCHANGED <<entry, err, mainVars, reArgs, reLocals, ccArgs, angle0, angle1,
                 psi_norm, mass, crVars>>

\* lines 98-101: one iteration of the loop, or its exit
cc_phase ==
  /\ pc = "cc_phase"
  /\ IF idx < clock_bits
     THEN /\ psi' = Append(psi, Gate("ctl_2x2", Clock(idx), Breg, u_phase, <<>>))
          /\ u_phase_gates' = Append(u_phase_gates, u_phase)
          /\ u_phase' = MatMul(u_phase, u_phase)
          /\ idx' = idx + 1
          /\ pc' = pc
     ELSE /\ pc' = "cc_iqft"
          /\ UNCHANGED <<psi, u_phase_gates, u_phase, idx>>
  /\ UNCHANGED <<entry, err, mainVars, reArgs, reLocals, ccArgs, angle0, angle1,
                 psi_norm, mass, crVars>>

cc_iqft ==
  /\ pc = "cc_iqft"
  /\ psi' = Append(psi, Gate("inverse_qft", -1, Clock(0), NoOp, <<>>))
  /\ pc' = "cc_angles"
  /\ UNCHANGED <<entry, err, mainVars, reArgs, reLocals, ccArgs, idx, u_phase,
                 u_phase_gates, angle0, angle1, psi_norm, mass, crVars>>

\* int(np.round(x)) & 1 == 1 for finite x
LowBitSet(x) == RoundHalfEven(x) % 2 = 1

\* variant: the overlap correction of lines 137-138 is missing
Angle1_uncorrected(cc, ww) == Arcsin2(FDiv(cc, ww[2]))

\* lines 135-138
Angle0(cc, ww) == Arcsin2(FDiv(cc, ww[1]))
Angle1(cc, ww) ==
  IF LowBitSet(ww[2])
  THEN AngleSub(Arcsin2(FDiv(cc, ww[2])), Angle0(cc, ww))
  ELSE Arcsin2(FDiv(cc, ww[2]))

cc_angles ==
  /\ pc = "cc_angles"
  /\ UNCHANGED <<entry, mainVars, reArgs, reLocals, ccArgs, idx, u_phase,
                 u_phase_gates, psi, psi_norm, mass, crVars>>
  /\ IF IsNan(cc_w[2])
     THEN Raise("ValueError") /\ UNCHANGED <<angle0, angle1>>
     ELSE IF IsInf(cc_w[2])
     THEN Raise("OverflowError") /\ UNCHANGED <<angle0, angle1>>
     ELSE /\ angle0' = Angle0(c, cc_w)
          /\ angle1' = Angle1(c, cc_w)
          /\ err' = err
          /\ pc' = "cc_cry0"

cc_cry0 ==
  /\ pc = "cc_cry0"
  /\ psi' = Append(psi, Gate("cry", Clock(0), Anc, NoOp, angle0))
  /\ pc' = "cc_cry1"
  /\ UNCHANGED <<entry, err, mainVars, reArgs, reLocals, ccArgs, idx, u_phase,
                 u_phase_gates, angle0, angle1, psi_norm, mass, crVars>>

cc_cry1 ==
  /\ pc = "cc_cry1"
  /\ IF RegHas(clock_bits, 1)
     THEN /\ psi' = Append(psi, Gate("cry", Clock(1), Anc, NoOp, angle1))
          /\ err' = err
          /\ pc' = "cc_measure"
     ELSE Raise("IndexError") /\ psi' = psi
  /\ UNCHANGED <<entry, mainVars, reArgs, reLocals, ccArgs, idx, u_phase,
                 u_phase_gates, angle0, angle1, psi_norm, mass, crVars>>

\* variant: the failure of measure_bit is swallowed and the circuit goes on
cc_measure_swallowed ==
  /\ pc = "cc_measure"
  /\ \E m \in AncillaMasses(psi) :
       /\ mass' = m
       /\ psi' = Append(psi, Gate("measure_bit", -1, Anc, NoOp, <<>>))
       /\ psi_norm' = measure_bit(m).norm
       /\ err' = err
       /\ pc' = "cc_qft"
  /\ UNCHANGED <<entry, mainVars, reArgs, reLocals, ccArgs, idx, u_phase,
                 u_phase_gates, angle0, angle1, crVars>>

\* line 143: the failure of measure_bit is not handled
cc_measure ==
  /\ pc = "cc_measure"
  /\ \E m \in AncillaMasses(psi) :
       /\ mass' = m
       /\ IF measure_bit(m).raised
          THEN Raise("ZeroAmplitudeOutcome") /\ UNCHANGED <<psi, psi_norm>>
          ELSE /\ psi' = Append(psi, Gate("measure_bit", -1, Anc, NoOp, <<>>))
               /\ psi_norm' = measure_bit(m).norm
               /\ err' = err
               /\ pc' = "cc_qft"
  /\ UNCHANGED <<entry, mainVars, reArgs, reLocals, ccArgs, idx, u_phase,
                 u_phase_gates, angle0, angle1, crVars>>

\* variant: the inverse transform is applied a second time instead of the QFT
cc_qft_inverse ==
  /\ pc = "cc_qft"
  /\ psi' = Append(psi, Gate("inverse_qft", -1, Clock(0), NoOp, <<>>))
  /\ idx' = clock_bits - 1
  /\ pc' = "cc_uncompute"
  /\ UNCHANGED <<entry, err, mainVars, reArgs, reLocals, ccArgs, u_phase,
                 u_phase_gates, angle0, angle1, psi_norm, mass, crVars>>

cc_qft ==
  /\ pc = "cc_qft"
  /\ psi' = Append(psi, Gate("qft", -1, Clock(0), NoOp, <<>>))
  /\ idx' = clock_bits - 1
  /\ pc' = "cc_uncompute"
  /\ UNCHANGED <<entry, err, mainVars, reArgs, reLocals, ccArgs, u_phase,
                 u_phase_gates, angle0, angle1, psi_norm, mass, crVars>>

\* lines 149-150: one iteration of the loop, or its exit
cc_uncompute ==
  /\ pc = "cc_uncompute"
  /\ IF idx > -1
     THEN /\ psi' = Append(psi, Gate("ctl_2x2", Clock(idx), Breg,
                                     MatInv(u_phase_gates[idx + 1]), <<>>))
          /\ idx' = idx - 1
          /\ pc' = pc
     ELSE /\ pc' = "cc_h2"
          /\ UNCHANGED <<psi, idx>>
  /\ UNCHANGED <<entry, err, mainVars, reArgs, reLocals, ccArgs, u_phase,
                 u_phase_gates, angle0, angle1, psi_norm, mass, crVars>>

\* lines 153-155
cc_h2 ==
  /\ pc = "cc_h2"
  /\ psi' = Append(psi, Gate("h", -1, Clock(0), NoOp, <<>>))
  /\ pc' = CcReturn
  /\ UNCHANGED <<entry, err, mainVars, reArgs, reLocals, ccArgs, idx, u_phase,
                 u_phase_gates, angle0, angle1, psi_norm, mass, crVars>>

\* -------------------------------------------------------- specification
Next ==
  \/ main
  \/ main_check_rotate_ry
  \/ main_continue
  \/ re_hermitian
  \/ re_eigen
  \/ re_plan
  \/ re_u
  \/ re_C
  \/ re_construct
  \/ check_results
  \/ cse_call
  \/ cc_init
  \/ cc_h
  \/ cc_phase
  \/ cc_iqft
  \/ cc_angles
  \/ cc_cry0
  \/ cc_cry1
  \/ cc_measure
  \/ cc_qft
  \/ cc_uncompute
  \/ cc_h2

Spec == Init /\ [][Next]_vars

\* ----------------------------------------------------------- properties
InPipeline == entry \in {"main", "run_experiment"}
Ended == pc \in {"done", "raised"}
NonzeroFinite(x) == IsFin(x) /\ ~IsZero(x)

GatesNamed(st, g) == SelectSeq(st, LAMBDA r : r.g = g)
HasGate(st, g) == \E i \in 1..Len(st) : st[i].g = g
IsPrefix(p, q) == Len(p) <= Len(q) /\ SubSeq(q, 1, Len(p)) = p

\* C1: with verify = False run_experiment never raises the verification
\* error 'Incorrect result.', whatever the classical and quantum ratios are.
C1_VerifyFalseNeverFailsVerification ==
  (InPipeline /\ a # NoMatrix /\ verify = FALSE) => err # IncorrectMsg

C3_ZeroEigenvalueAbortsPlanning ==
  (InPipeline /\ w # Unset /\ (IsZero(w[1]) \/ IsZero(w[2]))) =>
     (pc = "re_plan" \/ err = "DegenerateSpectrum")

\* C4: when main, started without extra arguments, has ended, all four
\* scenarios were entered in order, unless an entered scenario raised.
C4_MainRunsAllScenarios ==
  (entry = "main" /\ argc <= 1 /\ Ended) =>
     (scen = Len(Scenarios) \/ (scen >= 1 /\ err # "none"))

\* C5: the rotation on clock[0] uses 2*arcsin(C/lam[0]) unmodified; the one
\* on clock[1] uses 2*arcsin(C/lam[1]), minus angle[0] exactly when the
\* nearest integer to lam[1] (ties to even) is odd.
NearestIsOdd(x) ==
  \E n \in {x[1] \div x[2], (x[1] \div x[2]) + 1} :
     /\ n % 2 = 1
     /\ FLt(FAbs(FSub(x, Int2F(n))), <<1, 2>>)

C5_RotationCorrection ==
  LET cr == GatesNamed(psi, "cry")
      plain0 == Arcsin2(FDiv(c, cc_w[1]))
      plain1 == Arcsin2(FDiv(c, cc_w[2]))
  IN /\ Len(cr) >= 1 => (cr[1].ctl = Clock(0) /\ cr[1].tgt = Anc /\ cr[1].ang = plain0)
     /\ Len(cr) >= 2 =>
          /\ cr[2].ctl = Clock(1) /\ cr[2].tgt = Anc
          /\ cr[2].ang = IF NearestIsOdd(cc_w[2]) THEN AngleSub(plain1, plain0) ELSE plain1

C5_Witness ==
  /\ entry = "run_experiment" /\ a = A2
  /\ cc_w = <<(<<1, 1>>), (<<3, 1>>)>>
  /\ Len(GatesNamed(psi, "cry")) = 2
  /\ GatesNamed(psi, "cry")[2].ang = <<(<<1, 3>>), (<<1, 1>>)>>

\* C6: for nonzero eigenvalues the constant handed to construct_circuit
\* satisfies |C| <= |lam[i]| for both i.
C6_RotationConstantBounded ==
  (entry = "run_experiment" /\ pc = "cc_init"
     /\ NonzeroFinite(w[1]) /\ NonzeroFinite(w[2])) =>
     (FLe(FAbs(c), FAbs(cc_w[1])) /\ FLe(FAbs(c), FAbs(cc_w[2])))

\* C7: for nonzero w the scaled eigenvalues are lam[0] = 1 and
\* lam[1] = w[1]/w[0]; scenario 1 gives w = (2/3, 4/3), lam = (1, 2),
\* ratio 2 and scenario 2 gives w = (1/2, 3/2), lam = (1, 3).
C7_ScaledEigenvalues ==
  (InPipeline /\ lam # Unset) =>
     /\ (NonzeroFinite(w[1]) /\ NonzeroFinite(w[2])) =>
           (lam[1] = <<1, 1>> /\ lam[2] = FDiv(w[2], w[1]))
     /\ a = A1 => (w = <<(<<2, 3>>), (<<4, 3>>)>> /\ ratio = <<2, 1>>
                   /\ lam = <<(<<1, 1>>), (<<2, 1>>)>>)
     /\ a = A2 => (w = <<(<<1, 2>>), (<<3, 2>>)>>
                   /\ lam = <<(<<1, 1>>), (<<3, 1>>)>>)

C7_Witness ==
  entry = "run_experiment" /\ a = A1 /\ pc = "re_u" /\ lam = <<(<<1, 1>>), (<<2, 1>>)>>

\* C8: a forced measurement that finds the mass below the threshold raises
\* ZeroAmplitudeOutcome; the forward QFT, the uncompute and the final
\* Hadamard are not applied, and construct_circuit never returns a
\* statevector that is not of norm 1.
CcReturned ==
  \/ pc = "re_check"
  \/ entry = "construct_circuit" /\ pc = "done"
  \/ ratio_classical # Unset
  \/ err = "LinAlgError"

C8_ZeroAmplitudeOutcome ==
  /\ mass = "below" =>
       /\ err = "ZeroAmplitudeOutcome"
       /\ pc \in {"raised", "main_continue"}
       /\ ~HasGate(psi, "measure_bit") /\ ~HasGate(psi, "qft")
       /\ psi[Len(psi)].g = "cry"
       /\ ~CcReturned
  /\ CcReturned => psi_norm

C8_Witness ==
  /\ mass = "below" /\ err = "ZeroAmplitudeOutcome" /\ pc = "raised"
  /\ Len(GatesNamed(psi, "cry")) = 2

\* C9: the gates reach the statevector in one fixed order: optional flip of
\* breg, Hadamard on clock, controlled powers on clock[0..n-1], inverse QFT,
\* rotations on clock[0] then clock[1], post-selection, QFT, uncompute on
\* clock[n-1..0], Hadamard; every run's gate log is a prefix of that order
\* and a run that returns has applied all of it.
ExpectedStages(bb, n) ==
  (IF bb[2] = 1 THEN << <<"x", -1>> >> ELSE <<>>)
  \o << <<"h", -1>> >>
  \o [k \in 1..n |-> <<"ctl_2x2", k>>]
  \o << <<"inverse_qft", -1>>, <<"cry", 1>>, <<"cry", 2>>, <<"measure_bit", -1>>, <<"qft", -1>> >>
  \o [k \in 1..n |-> <<"ctl_2x2", n - k + 1>>]
  \o << <<"h", -1>> >>

Stages(st) == [i \in 1..Len(st) |-> <<st[i].g, st[i].ctl>>]

C9_FixedStageOrder ==
  cc_b # <<>> =>
     /\ IsPrefix(Stages(psi), ExpectedStages(cc_b, clock_bits))
     /\ CcReturned => Stages(psi) = ExpectedStages(cc_b, clock_bits)

C9_Witness ==
  /\ entry = "construct_circuit" /\ pc = "done" /\ clock_bits = 3 /\ cc_b[2] = 1
  /\ Len(psi) = 14

\* C10: after phase estimation exactly clock_bits gates are recorded, gate k
\* is U^(2^k) and was applied controlled on clock[k]; the uncompute applies,
\* for k = clock_bits-1 down to 0, the inverse of recorded gate k controlled
\* on clock[k], so each forward power meets exactly one inverse.
RECURSIVE Pow2(_)
Pow2(k) == IF k = 0 THEN 1 ELSE 2 * Pow2(k - 1)

\* U^e by its eigenphases
OpPower(x, e) ==
  [basis |-> x.basis, ph |-> <<Frac(FMul(x.ph[1], Int2F(e))), Frac(FMul(x.ph[2], Int2F(e)))>>]

IsIdentity(x) == x.ph = <<(<<0, 1>>), (<<0, 1>>)>>

====
